---- MODULE Spec2Model ----
(***************************************************************************)
(* Tenant provisioning and access control backend of sedifexbiz            *)
(* (src/python_functions): the in-memory document store, the in-memory     *)
(* identity provider and the three callables initialize_store,             *)
(* resolve_store_access and manage_staff_account.                          *)
(*                                                                         *)
(* Python values are modelled as tagged tuples so that values of           *)
(* different Python types can be compared:                                 *)
(*   None            <<"none">>                                            *)
(*   str             <<"str", s>>   s a sequence of one-character strings  *)
(*   Timestamp       <<"ts", ms, us>>  milliseconds since the epoch and    *)
(*                   the microseconds inside that millisecond              *)
(*   dict            <<"map", f>>   f a function from field names          *)
(*   int             <<"num", n>>                                          *)
(* Document ids and uids are bare character sequences.                     *)
(***************************************************************************)
EXTENDS Integers, Sequences, FiniteSets, TLC

VARIABLES
  roster,      \* roster_db "teamMembers": document id -> document
  defMembers,  \* default_db "teamMembers": document id -> document
  stores,      \* default_db "stores": store id -> document
  workspaces,  \* default_db "workspaces": slug -> document
  created,     \* collections that exist in the two databases
  users,       \* InMemoryAuth._users: uid -> user record
  calls,       \* number of calls that have read the wall clock
  inflight,    \* initialize_store calls that have read and not yet written
  last,        \* the latest call: operation, inputs and outcome
  returned,    \* uid -> the storeId its first successful initialize_store returned
  external,    \* number of writes made outside the three callables
  provisioned  \* email -> the uid its first successful manage_staff_account returned

vars == <<roster, defMembers, stores, workspaces, created, users, calls, last, returned,
         external, inflight, provisioned>>

(***************************************************************************)
(* Bounds                                                                  *)
(***************************************************************************)
MaxCalls == 4
MaxExtCalls == 2
MaxExternal == 1
MaxUidCalls == 4

(***************************************************************************)
(* Values                                                                  *)
(***************************************************************************)
None == <<"none">>
Str(s) == <<"str", s>>
Num(n) == <<"num", n>>
Map(f) == <<"map", f>>
Ts(ms, us) == <<"ts", ms, us>>

IsStr(v) == v[1] = "str"
IsMap(v) == v[1] = "map"
IsTs(v) == v[1] = "ts"

EmptyDoc == <<>>

\* dict.get(key): the value, or None when the key is absent
Get(d, k) == IF k \in DOMAIN d THEN d[k] ELSE None

\* python truthiness of the values used here
Truthy(v) ==
  CASE v[1] = "none" -> FALSE
    [] v[1] = "str" -> Len(v[2]) > 0
    [] v[1] = "map" -> DOMAIN v[2] # {}
    [] v[1] = "num" -> v[2] # 0
    [] OTHER -> TRUE

\* python "a or b"
Or(a, b) == IF Truthy(a) THEN a ELSE b

(***************************************************************************)
(* Strings                                                                 *)
(***************************************************************************)
UpperChars == <<"A", "B", "C", "D", "E", "F", "G", "H", "I", "J", "K", "L", "M",
                "N", "O", "P", "Q", "R", "S", "T", "U", "V", "W", "X", "Y", "Z">>
LowerChars == <<"a", "b", "c", "d", "e", "f", "g", "h", "i", "j", "k", "l", "m",
                "n", "o", "p", "q", "r", "s", "t", "u", "v", "w", "x", "y", "z">>
Whitespace == {" ", "\t", "\n"}

LowerChar(c) ==
  IF \E i \in 1..Len(UpperChars) : UpperChars[i] = c
  THEN LowerChars[CHOOSE i \in 1..Len(UpperChars) : UpperChars[i] = c]
  ELSE c

\* str.lower()
Lower(s) == [i \in 1..Len(s) |-> LowerChar(s[i])]

RECURSIVE LStrip(_)
LStrip(s) == IF s # <<>> /\ Head(s) \in Whitespace THEN LStrip(Tail(s)) ELSE s

RECURSIVE RStrip(_)
RStrip(s) ==
  IF s # <<>> /\ s[Len(s)] \in Whitespace THEN RStrip(SubSeq(s, 1, Len(s) - 1)) ELSE s

\* str.strip()
Strip(s) == RStrip(LStrip(s))

\* str.replace(old, new) for single characters
Replace(s, old, new) == [i \in 1..Len(s) |-> IF s[i] = old THEN new ELSE s[i]]

\* str.split(sep) for a single-character separator, as the set of the pieces
RECURSIVE SplitFrom(_, _, _)
SplitFrom(s, sep, cur) ==
  IF s = <<>> THEN {cur}
  ELSE IF Head(s) = sep THEN {cur} \cup SplitFrom(Tail(s), sep, <<>>)
  ELSE SplitFrom(Tail(s), sep, Append(cur, Head(s)))

Split(s, sep) == SplitFrom(s, sep, <<>>)

(***************************************************************************)
(* plans.py                                                                *)
(***************************************************************************)
STARTER == <<"s", "t", "a", "r", "t", "e", "r">>
PRO == <<"p", "r", "o">>
ENTERPRISE == <<"e", "n", "t", "e", "r", "p", "r", "i", "s", "e">>
PLAN_IDS == {STARTER, PRO, ENTERPRISE}

TrialDays == 14

\* get_billing_config()["trial_days"]
get_billing_config == [trial_days |-> TrialDays]

(***************************************************************************)
(* timestamp.py                                                            *)
(***************************************************************************)
\* Timestamp.now() when the wall clock shows tick t; a tick is half a millisecond
TimestampAt(t) == Ts(t \div 2, (t % 2) * 500)

\* Timestamp.to_millis()
to_millis(ts) == ts[2]

\* Timestamp.from_millis(millis)
from_millis(millis) == Ts(millis, 0)

(***************************************************************************)
(* utils.py                                                                *)
(***************************************************************************)
OWNER == <<"o", "w", "n", "e", "r">>
STAFF == <<"s", "t", "a", "f", "f">>
VALID_ROLES == {OWNER, STAFF}

\* mutant: an unrecognized plan id falls back to starter
normalize_plan_id_fallback(value) ==
  IF IsStr(value)
  THEN LET candidate == Lower(Strip(value[2]))
       IN IF candidate # <<>> /\ candidate \in PLAN_IDS THEN Str(candidate) ELSE Str(STARTER)
  ELSE None

\* normalize_plan_id(value): Str(plan) or None
normalize_plan_id(value) ==
  IF IsStr(value)
  THEN LET candidate == Lower(Strip(value[2]))
       IN IF candidate # <<>> /\ candidate \in PLAN_IDS THEN Str(candidate) ELSE None
  ELSE None

normalize_workspace_slug_from_fallback(value, fallback) ==
  IF IsStr(value) /\ Strip(value[2]) # <<>> THEN Strip(value[2]) \o fallback ELSE fallback

\* normalize_workspace_slug(value, fallback): a bare string
normalize_workspace_slug(value, fallback) ==
  IF IsStr(value) /\ Strip(value[2]) # <<>> THEN Strip(value[2]) ELSE fallback

\* to_timestamp(value)
to_timestamp(value) ==
  IF IsTs(value) THEN value
  ELSE IF IsMap(value) /\ "_millis" \in DOMAIN value[2] /\ value[2]["_millis"][1] = "num"
       THEN from_millis(value[2]["_millis"][2])
       ELSE None

\* get_optional_string(value)
get_optional_string(value) ==
  IF IsStr(value) /\ Strip(value[2]) # <<>> THEN Str(Strip(value[2])) ELSE None

\* get_optional_email(value)
get_optional_email(value) ==
  LET candidate == get_optional_string(value)
  IN IF Truthy(candidate) THEN Str(Lower(candidate[2])) ELSE None

INACTIVE_TOKENS ==
  { <<"i", "n", "a", "c", "t", "i", "v", "e">>,
    <<"t", "e", "r", "m", "i", "n", "a", "t", "e", "d">>,
    <<"t", "e", "r", "m", "i", "n", "a", "t", "i", "o", "n">>,
    <<"c", "a", "n", "c", "e", "l", "l", "e", "d">>,
    <<"c", "a", "n", "c", "e", "l", "e", "d">>,
    <<"s", "u", "s", "p", "e", "n", "d", "e", "d">>,
    <<"p", "a", "u", "s", "e", "d">>,
    <<"h", "o", "l", "d">>,
    <<"c", "l", "o", "s", "e", "d">>,
    <<"e", "n", "d", "e", "d">>,
    <<"d", "e", "a", "c", "t", "i", "v", "a", "t", "e", "d">>,
    <<"d", "i", "s", "a", "b", "l", "e", "d">> }

\* mutant: the status is tokenized without lower-casing it
is_inactive_contract_status_case_sensitive(value) ==
  IF ~Truthy(value) THEN FALSE
  ELSE LET tokens == Split(Replace(value[2], "_", "-"), "-") \ {<<>>}
       IN \E token \in INACTIVE_TOKENS : token \in tokens

\* is_inactive_contract_status(value), value a Str or None
is_inactive_contract_status(value) ==
  IF ~Truthy(value) THEN FALSE
  ELSE LET tokens == Split(Replace(Lower(value[2]), "_", "-"), "-") \ {<<>>}
       IN \E token \in INACTIVE_TOKENS : token \in tokens

\* _normalize_nullable_string(value, message): [err, value]
normalize_nullable_string(value) ==
  IF value = None \/ value = Str(<<>>) THEN [err |-> FALSE, value |-> None]
  ELSE IF IsStr(value)
       THEN [err |-> FALSE,
             value |-> IF Strip(value[2]) # <<>> THEN Str(Strip(value[2])) ELSE None]
       ELSE [err |-> TRUE, value |-> None]

\* _normalize_nullable_email(value, message): [err, value]
normalize_nullable_email(value) ==
  LET result == normalize_nullable_string(value)
  IN IF ~result.err /\ Truthy(result.value)
     THEN [err |-> FALSE, value |-> Str(Lower(result.value[2]))]
     ELSE [err |-> result.err, value |-> None]

TEAM_MEMBER == <<"t", "e", "a", "m", "-", "m", "e", "m", "b", "e", "r">>
TEAM == <<"t", "e", "a", "m">>

\* _normalize_signup_role(value): [err, value]
normalize_signup_role(value) ==
  IF value = None \/ value = Str(<<>>) THEN [err |-> FALSE, value |-> None]
  ELSE IF ~IsStr(value) THEN [err |-> TRUE, value |-> None]
  ELSE LET normalized == Replace(Replace(Lower(Strip(value[2])), "_", "-"), " ", "-")
       IN IF normalized = OWNER THEN [err |-> FALSE, value |-> Str(OWNER)]
          ELSE IF normalized \in {TEAM_MEMBER, TEAM}
               THEN [err |-> FALSE, value |-> Str(TEAM_MEMBER)]
               ELSE [err |-> FALSE, value |-> None]

\* one field of normalize_contact_payload: [has, err, value]
ContactField(raw, key, kind) ==
  IF IsMap(raw) /\ key \in DOMAIN raw[2]
  THEN LET normalized == CASE kind = "email" -> normalize_nullable_email(raw[2][key])
                           [] kind = "role" -> normalize_signup_role(raw[2][key])
                           [] OTHER -> normalize_nullable_string(raw[2][key])
       IN [has |-> TRUE, err |-> normalized.err, value |-> normalized.value]
  ELSE [has |-> FALSE, err |-> FALSE, value |-> None]

\* normalize_contact_payload(raw): the ContactPayload, err when a field raised
normalize_contact_payload(raw) ==
  LET phone == ContactField(raw, "phone", "string")
      first_signup_email == ContactField(raw, "firstSignupEmail", "email")
      owner_name == ContactField(raw, "ownerName", "string")
      business_name == ContactField(raw, "businessName", "string")
      country == ContactField(raw, "country", "string")
      town == ContactField(raw, "town", "string")
      signup_role == ContactField(raw, "signupRole", "role")
  IN [err |-> phone.err \/ first_signup_email.err \/ owner_name.err \/ business_name.err
              \/ country.err \/ town.err \/ signup_role.err,
      phone |-> phone.value, has_phone |-> phone.has,
      first_signup_email |-> first_signup_email.value,
      has_first_signup_email |-> first_signup_email.has,
      owner_name |-> owner_name.value, has_owner_name |-> owner_name.has,
      business_name |-> business_name.value, has_business_name |-> business_name.has,
      country |-> country.value, has_country |-> country.has,
      town |-> town.value, has_town |-> town.has,
      signup_role |-> signup_role.value, has_signup_role |-> signup_role.has]

\* serialize_firestore_data(data)
RECURSIVE serialize_firestore_data(_)
serialize_firestore_data(data) ==
  [key \in DOMAIN data |->
     IF IsTs(data[key]) THEN Map("_millis" :> Num(to_millis(data[key])))
     ELSE IF IsMap(data[key]) THEN Map(serialize_firestore_data(data[key][2]))
     ELSE data[key]]

(***************************************************************************)
(* datastore.py                                                            *)
(***************************************************************************)
\* _normalise_values(data): a copy of the mapping, nested mappings copied too
RECURSIVE normalise_values(_)
normalise_values(data) ==
  [key \in DOMAIN data |->
     IF IsMap(data[key]) THEN Map(normalise_values(data[key][2])) ELSE data[key]]

\* mutant: a snapshot of an absent document claims to exist
DocGetAlwaysExists(coll, id) ==
  [exists |-> TRUE, data |-> IF id \in DOMAIN coll THEN coll[id] ELSE EmptyDoc]

\* DocumentReference.get(): [exists, data], data() of an absent document is {}
DocGet(coll, id) ==
  IF id \in DOMAIN coll THEN [exists |-> TRUE, data |-> coll[id]]
  ELSE [exists |-> FALSE, data |-> EmptyDoc]

\* mutant: on a merge the stored values win over the written ones
DocSetMergeKeepExisting(coll, id, data) ==
  IF id \in DOMAIN coll
  THEN [coll EXCEPT ![id] = coll[id] @@ normalise_values(data)]
  ELSE (id :> normalise_values(data)) @@ coll

\* DocumentReference.set(data, merge=True): dict.update on an existing document
DocSetMerge(coll, id, data) ==
  IF id \in DOMAIN coll
  THEN [coll EXCEPT ![id] = normalise_values(data) @@ coll[id]]
  ELSE (id :> normalise_values(data)) @@ coll

\* DocumentReference.update(data): fails when the document is absent
DocUpdate(coll, id, data) ==
  IF id \in DOMAIN coll
  THEN [ok |-> TRUE, coll |-> [coll EXCEPT ![id] = normalise_values(data) @@ coll[id]]]
  ELSE [ok |-> FALSE, coll |-> coll]

ROSTER_MEMBERS == "roster/teamMembers"
DEFAULT_MEMBERS == "default/teamMembers"
DEFAULT_STORES == "default/stores"
DEFAULT_WORKSPACES == "default/workspaces"

(***************************************************************************)
(* auth.py: users is the dict _users in insertion order                    *)
(***************************************************************************)
UserIndex(us, uid) ==
  IF \E i \in 1..Len(us) : us[i].uid = uid
  THEN CHOOSE i \in 1..Len(us) : us[i].uid = uid
  ELSE 0

\* self._users[uid] = record: a new key is appended, an existing key keeps its place
PutUser(us, record) ==
  IF UserIndex(us, record.uid) = 0 THEN Append(us, record)
  ELSE [us EXCEPT ![UserIndex(us, record.uid)] = record]

\* InMemoryAuth.get_user_by_email(email): index of the first match, 0 when none
get_user_by_email(us, email) ==
  LET lowered == Lower(email)
      matches == {i \in 1..Len(us) :
                    Truthy(us[i].email) /\ Lower(us[i].email[2]) = lowered}
  IN IF matches = {} THEN 0 ELSE CHOOSE i \in matches : \A j \in matches : i <= j

\* InMemoryAuth.ensure_uid(uid): the users after the call
ensure_uid(us, uid) ==
  IF UserIndex(us, uid) = 0
  THEN Append(us, [uid |-> uid, email |-> None, password |-> None, custom_claims |-> EmptyDoc])
  ELSE us

Digits == <<"0", "1", "2", "3", "4", "5", "6", "7", "8", "9">>

\* str(n) for n >= 0
RECURSIVE ToDecimal(_)
ToDecimal(n) ==
  IF n < 10 THEN <<Digits[n + 1]>> ELSE Append(ToDecimal(n \div 10), Digits[(n % 10) + 1])

\* the uid InMemoryAuth.create_user allocates
NewUid(us) == <<"u", "i", "d", "_">> \o ToDecimal(Len(us) + 1)

\* InMemoryAuth.create_user(email, password)
create_user(us, email, password) ==
  PutUser(us, [uid |-> NewUid(us), email |-> Str(email), password |-> password,
               custom_claims |-> EmptyDoc])

\* InMemoryAuth.update_user(uid, password)
update_user(us, uid, password) ==
  IF password # None
  THEN [us EXCEPT ![UserIndex(us, uid)].password = password]
  ELSE us

\* InMemoryAuth.set_custom_user_claims(uid, claims)
set_custom_user_claims(us, uid, claims) ==
  [us EXCEPT ![UserIndex(us, uid)].custom_claims = claims]

ensure_user_without_password(us, email, password) ==
  LET i == get_user_by_email(us, email)
  IN IF i # 0
     THEN [err |-> FALSE,
           users |-> IF Truthy(password) THEN update_user(us, us[i].uid, password) ELSE us,
           uid |-> us[i].uid, created |-> FALSE]
     ELSE [err |-> FALSE, users |-> create_user(us, email, password),
           uid |-> NewUid(us), created |-> TRUE]

\* InMemoryAuth.ensure_user(email, password): [err, users, uid, created]
ensure_user(us, email, password) ==
  LET i == get_user_by_email(us, email)
  IN IF i # 0
     THEN [err |-> FALSE,
           users |-> IF Truthy(password) THEN update_user(us, us[i].uid, password) ELSE us,
           uid |-> us[i].uid, created |-> FALSE]
     ELSE IF ~Truthy(password)
          THEN [err |-> TRUE, users |-> us, uid |-> <<>>, created |-> FALSE]
          ELSE [err |-> FALSE, users |-> create_user(us, email, password),
                uid |-> NewUid(us), created |-> TRUE]

(***************************************************************************)
(* callables.py: guards and claims                                         *)
(***************************************************************************)
\* get_role_from_token(token): Str(role) or None
get_role_from_token(token) ==
  LET role == Get(token, "role")
  IN IF IsStr(role) /\ Lower(role[2]) \in VALID_ROLES THEN Str(Lower(role[2])) ELSE None

STALE_CLAIM_KEYS == {"stores", "activeStoreId", "storeId", "roleByStore"}

\* mutant: the stale tenancy keys are not removed
NewClaimsKeepStale(old, role) == ("role" :> role) @@ old

\* the claims update_user_claims writes for a record holding old
NewClaims(old, role) ==
  LET claims == ("role" :> role) @@ old
  IN [key \in DOMAIN claims \ STALE_CLAIM_KEYS |-> claims[key]]

update_user_claims_role_once(us, uid, role) ==
  LET ensured == ensure_uid(us, uid)
      old == ensured[UserIndex(ensured, uid)].custom_claims
      claims == NewClaims(old, IF "role" \in DOMAIN old THEN old["role"] ELSE role)
  IN [users |-> set_custom_user_claims(ensured, uid, claims), claims |-> claims]

\* update_user_claims(uid, role, auth): [users, claims]
update_user_claims(us, uid, role) ==
  LET ensured == ensure_uid(us, uid)
      claims == NewClaims(ensured[UserIndex(ensured, uid)].custom_claims, role)
  IN [users |-> set_custom_user_claims(ensured, uid, claims), claims |-> claims]

(***************************************************************************)
(* callables.py: outcome of a call                                         *)
(* code is "ok" or the code of the HttpsError raised; the other fields are *)
(* the databases, the identity provider and the call count after the call, *)
(* and the returned mapping.                                               *)
(***************************************************************************)
NoResult == <<>>

\* mutant: a failing call leaves a partly written TeamMember document behind
RaiseWithPartialWrite(code, cr) ==
  [code |-> code, roster |-> DocSetMerge(roster, <<>>, EmptyDoc), defMembers |-> defMembers,
   stores |-> stores, workspaces |-> workspaces, created |-> cr, users |-> users,
   calls |-> calls, res |-> NoResult]

\* raise HttpsError(code): every raise in the three callables comes before the
\* first write of its call
Raise(code, cr) ==
  [code |-> code, roster |-> roster, defMembers |-> defMembers, stores |-> stores,
   workspaces |-> workspaces, created |-> cr, users |-> users, calls |-> calls,
   res |-> NoResult]

\* _apply_optional_member_fields
apply_optional_member_fields(member_data, owner_name, business_name, country, town, signup_role) ==
  (IF signup_role # None THEN "signupRole" :> signup_role ELSE EmptyDoc)
  @@ (IF town # None THEN "town" :> town ELSE EmptyDoc)
  @@ (IF country # None THEN "country" :> country ELSE EmptyDoc)
  @@ (IF business_name # None THEN "companyName" :> business_name ELSE EmptyDoc)
  @@ (IF owner_name # None THEN "name" :> owner_name ELSE EmptyDoc)
  @@ member_data

\* _apply_optional_workspace_fields
apply_optional_workspace_fields(workspace_data, email, phone, owner_name, business_name, country, town, first_signup_email) ==
  (IF first_signup_email # None THEN "firstSignupEmail" :> first_signup_email ELSE EmptyDoc)
  @@ (IF Truthy(town) THEN "town" :> town ELSE EmptyDoc)
  @@ (IF Truthy(country) THEN "country" :> country ELSE EmptyDoc)
  @@ (IF Truthy(business_name)
      THEN ("company" :> business_name) @@ ("displayName" :> business_name)
      ELSE EmptyDoc)
  @@ (IF Truthy(owner_name) THEN "ownerName" :> owner_name ELSE EmptyDoc)
  @@ (IF Truthy(phone) THEN "ownerPhone" :> phone ELSE EmptyDoc)
  @@ (IF Truthy(email) THEN "ownerEmail" :> email ELSE EmptyDoc)
  @@ workspace_data

ACTIVE_CAP == <<"A", "c", "t", "i", "v", "e">>
ACTIVE == <<"a", "c", "t", "i", "v", "e">>
TRIAL == <<"t", "r", "i", "a", "l">>
PAYSTACK == <<"p", "a", "y", "s", "t", "a", "c", "k">>

DefaultInventorySummary ==
  Map([trackedSkus |-> Num(0), lowStockSkus |-> Num(0), incomingShipments |-> Num(0)])

\* mutant: "createdAt" is written whether or not the document existed
WithCreatedAtAlways(data, snap, timestamp) == ("createdAt" :> timestamp) @@ data

\* "createdAt" is added to a write when the snapshot read before it did not exist
WithCreatedAt(data, snap, timestamp) ==
  IF ~snap.exists THEN ("createdAt" :> timestamp) @@ data ELSE data

\* mutant: the store id is derived from the uid again on every call
resolve_store_id_regenerated(existing_store_id, uid) == uid

\* store_id = existing_store_id or uid
resolve_store_id(existing_store_id, uid) == Or(existing_store_id, Str(uid))[2]

\* mutant: the plan already on the store wins over the requested plan
resolve_plan_id_existing_first(requested_plan_id, existing_plan_id) ==
  Or(existing_plan_id, Or(requested_plan_id, Str(STARTER)))

\* resolved_plan_id = requested_plan_id or existing_plan_id or "starter"
resolve_plan_id(requested_plan_id, existing_plan_id) ==
  Or(requested_plan_id, Or(existing_plan_id, Str(STARTER)))

\* mutant: the contract window restarts on every call
resolve_contract_start_now(existing_contract_start, now) == now

\* contract_start = existing_contract_start or now
resolve_contract_start(existing_contract_start, now) == Or(existing_contract_start, now)

\* mutant: the trial length is added as seconds
resolve_contract_end_in_seconds(existing_contract_end, contract_start, trial_duration_ms) ==
  Or(existing_contract_end,
     from_millis(to_millis(contract_start) + trial_duration_ms \div 1000))

\* contract_end = existing_contract_end or from_millis(contract_start + trial)
resolve_contract_end(existing_contract_end, contract_start, trial_duration_ms) ==
  Or(existing_contract_end, from_millis(to_millis(contract_start) + trial_duration_ms))

(***************************************************************************)
(* callables.py: initialize_store(data, context)                           *)
(* ts is the tick read by server_timestamp(), now the tick read by         *)
(* Timestamp.now() for the contract window.                                *)
(***************************************************************************)
\* The body of initialize_store is written as a chain of steps.  Each step
\* receives the local variables computed so far as the record env and hands
\* env, extended with the locals it computes, to the next step.

\* lines 242-251: the claims and the returned mapping
initialize_store_return(env) ==
  LET claimed == update_user_claims(users, env.uid, Str(OWNER))
  IN [code |-> "ok", roster |-> env.roster, defMembers |-> env.defMembers,
      stores |-> env.stores, workspaces |-> env.workspaces,
      created |-> env.created \cup {DEFAULT_STORES, DEFAULT_WORKSPACES},
      users |-> claimed.users, calls |-> calls + 1, locals |-> env,
      res |-> [ok |-> TRUE, storeId |-> Str(env.store_id), claims |-> claimed.claims,
               teamMember |-> [id |-> env.uid,
                               data |-> serialize_firestore_data(env.member_data)],
               store |-> [id |-> env.store_id,
                          data |-> serialize_firestore_data(env.store_data)],
               workspace |-> [id |-> env.workspace_slug,
                              data |-> serialize_firestore_data(env.workspace_data)]]]

initialize_store_writes_without_store(env, db) ==
  [roster |-> DocSetMerge(db.roster, env.uid, env.member_data),
   defMembers |-> DocSetMerge(db.defMembers, env.uid, env.member_data),
   stores |-> db.stores,
   workspaces |-> DocSetMerge(db.workspaces, env.workspace_slug, env.workspace_data)]

\* lines 142-156, 205, 240: the five writes, made on the collections db
initialize_store_writes(env, db) ==
  LET roster1 == DocSetMerge(db.roster, env.uid, env.member_data)
      default_member_data ==
        WithCreatedAt(env.member_data, env.default_member_snap, env.timestamp)
      email_data ==
        WithCreatedAt(("email" :> env.email_value) @@ env.member_data,
                      DocGet(roster1, env.normalized_email[2]), env.timestamp)
  IN [roster |-> IF Truthy(env.normalized_email)
                 THEN DocSetMerge(roster1, env.normalized_email[2], email_data)
                 ELSE roster1,
      defMembers |-> DocSetMerge(db.defMembers, env.uid, default_member_data),
      stores |-> DocSetMerge(db.stores, env.store_id, env.store_data),
      workspaces |-> DocSetMerge(db.workspaces, env.workspace_slug, env.workspace_data)]

\* the writes of a call that runs alone
initialize_store_write(env) ==
  initialize_store_return(
    initialize_store_writes(env, [roster |-> roster, defMembers |-> defMembers,
                                  stores |-> stores, workspaces |-> workspaces])
    @@ env)

\* lines 119-141, 158-203, 207-238: the three documents to write
initialize_store_data(env) ==
  LET existing_store == env.store_snap.data
      existing_workspace == env.workspace_snap.data
      billing_details ==
        ("planId" :> env.resolved_plan_id) @@ env.billing_payload
        @@ ("provider" :> Str(PAYSTACK)) @@ ("status" :> Str(TRIAL))
        @@ ("trialEndsAt" :> env.contract_end)
      store_base ==
        [ownerId |-> Str(env.uid), updatedAt |-> env.timestamp,
         workspaceSlug |-> Str(env.workspace_slug), billing |-> Map(billing_details),
         status |-> Or(get_optional_string(Get(existing_store, "status")), Str(ACTIVE_CAP)),
         contractStatus |->
           Or(get_optional_string(Get(existing_store, "contractStatus")), Str(ACTIVE_CAP)),
         inventorySummary |->
           Or(Get(existing_store, "inventorySummary"), DefaultInventorySummary),
         contractStart |-> env.contract_start, contractEnd |-> env.contract_end]
  IN initialize_store_write(
       [member_data |->
          WithCreatedAt(
            apply_optional_member_fields(
              [uid |-> Str(env.uid), email |-> env.email_value, role |-> Str(OWNER),
               storeId |-> Str(env.store_id), phone |-> env.resolved_phone,
               firstSignupEmail |-> env.resolved_first_signup_email,
               invitedBy |-> Str(env.uid), updatedAt |-> env.timestamp,
               workspaceSlug |-> Str(env.workspace_slug)],
              env.resolved_owner_name, env.resolved_business_name, env.resolved_country,
              env.resolved_town, env.resolved_signup_role),
            env.member_snap, env.timestamp),
        store_data |->
          WithCreatedAt(
            (IF Truthy(env.resolved_phone)
             THEN "ownerPhone" :> env.resolved_phone ELSE EmptyDoc)
            @@ (IF Truthy(env.resolved_town) THEN "town" :> env.resolved_town ELSE EmptyDoc)
            @@ (IF Truthy(env.resolved_country)
                THEN "country" :> env.resolved_country ELSE EmptyDoc)
            @@ (IF Truthy(env.resolved_business_name)
                THEN ("displayName" :> env.resolved_business_name)
                     @@ ("businessName" :> env.resolved_business_name)
                ELSE EmptyDoc)
            @@ (IF Truthy(env.resolved_owner_name)
                THEN "ownerName" :> env.resolved_owner_name ELSE EmptyDoc)
            @@ (IF Truthy(env.email_value)
                THEN "ownerEmail" :> env.email_value ELSE EmptyDoc)
            @@ store_base,
            env.store_snap, env.timestamp),
        workspace_data |->
          ("contractStart" :> env.contract_start) @@ ("contractEnd" :> env.contract_end)
          @@ ("status" :>
                Or(get_optional_string(Get(existing_workspace, "status")), Str(ACTIVE)))
          @@ ("contractStatus" :>
                Or(get_optional_string(Get(existing_workspace, "contractStatus")),
                   Str(ACTIVE)))
          @@ ("paymentStatus" :>
                Or(get_optional_string(Get(existing_workspace, "paymentStatus")),
                   Str(TRIAL)))
          @@ apply_optional_workspace_fields(
               WithCreatedAt(
                 [slug |-> Str(env.workspace_slug), storeId |-> Str(env.store_id),
                  ownerId |-> Str(env.uid), updatedAt |-> env.timestamp,
                  planId |-> env.resolved_plan_id],
                 env.workspace_snap, env.timestamp),
               env.email_value, env.resolved_phone, env.resolved_owner_name,
               env.resolved_business_name, env.resolved_country, env.resolved_town,
               env.resolved_first_signup_email)]
       @@ env)

\* lines 112-117: the contract window
initialize_store_contract(env) ==
  LET existing_store == env.store_snap.data
      trial_duration_ms ==
        (IF env.trial_days > 0 THEN env.trial_days ELSE 0) * 24 * 60 * 60 * 1000
      existing_contract_start ==
        IF existing_store # EmptyDoc
        THEN to_timestamp(Get(existing_store, "contractStart")) ELSE None
      existing_contract_end ==
        IF existing_store # EmptyDoc
        THEN to_timestamp(Get(existing_store, "contractEnd")) ELSE None
      contract_start == resolve_contract_start(existing_contract_start, env.now)
  IN initialize_store_data(
       [contract_start |-> contract_start,
        contract_end |->
          resolve_contract_end(existing_contract_end, contract_start, trial_duration_ms)]
       @@ env)

\* lines 104-110: the plan
initialize_store_plan(env) ==
  LET existing_store == env.store_snap.data
      existing_billing ==
        IF existing_store # EmptyDoc THEN Get(existing_store, "billing") ELSE None
      billing_payload == IF Truthy(existing_billing) THEN existing_billing[2] ELSE EmptyDoc
      existing_plan_id_billing ==
        normalize_plan_id(IF billing_payload # EmptyDoc
                          THEN Get(billing_payload, "planId") ELSE None)
      existing_plan_id ==
        IF ~Truthy(existing_plan_id_billing)
        THEN IF existing_store # EmptyDoc
             THEN normalize_plan_id(Get(existing_store, "planId")) ELSE None
        ELSE existing_plan_id_billing
  IN initialize_store_contract(
       [billing_payload |-> billing_payload,
        resolved_plan_id |-> resolve_plan_id(env.requested_plan_id, existing_plan_id)]
       @@ env)

\* lines 91-102: the workspace slug and the workspace
initialize_store_workspace(env) ==
  LET existing_store == env.store_snap.data
      workspace_slug ==
        normalize_workspace_slug(
          Or(get_optional_string(Get(existing_store, "workspaceSlug")),
             Or(get_optional_string(Get(existing_store, "slug")),
                Or(get_optional_string(Get(existing_store, "storeSlug")), None))),
          env.store_id)
  IN initialize_store_plan(
       [workspace_slug |-> workspace_slug,
        workspace_snap |-> DocGet(workspaces, workspace_slug)] @@ env)

\* lines 88-90: the store
initialize_store_store(env) ==
  initialize_store_workspace([store_snap |-> DocGet(stores, env.store_id)] @@ env)

\* lines 80-86: the requested plan and the store id
initialize_store_member(env) ==
  LET existing_member == env.member_snap.data
      existing_store_id ==
        IF existing_member # EmptyDoc
        THEN get_optional_string(Get(existing_member, "storeId")) ELSE None
  IN IF Get(env.payload, "planId") # None /\ env.requested_plan_id = None
     THEN Raise("invalid-argument", env.created)
     ELSE initialize_store_store(
            [store_id |-> resolve_store_id(existing_store_id, env.uid)] @@ env)

\* lines 57-80: the resolved contact fields, the member snapshots, the timestamp
initialize_store_contact(env) ==
  LET contact == env.contact
  IN IF contact.err THEN Raise("invalid-argument", created)
     ELSE initialize_store_member(
            [resolved_phone |-> IF contact.has_phone THEN contact.phone ELSE env.token_phone,
             resolved_first_signup_email |->
               IF contact.has_first_signup_email THEN contact.first_signup_email
               ELSE Or(env.normalized_email, None),
             resolved_owner_name |->
               IF contact.has_owner_name THEN contact.owner_name ELSE None,
             resolved_business_name |->
               IF contact.has_business_name THEN contact.business_name ELSE None,
             resolved_country |-> IF contact.has_country THEN contact.country ELSE None,
             resolved_town |-> IF contact.has_town THEN contact.town ELSE None,
             resolved_signup_role |->
               IF contact.has_signup_role THEN contact.signup_role ELSE None,
             created |-> created \cup {ROSTER_MEMBERS, DEFAULT_MEMBERS},
             member_snap |-> DocGet(roster, env.uid),
             default_member_snap |-> DocGet(defMembers, env.uid),
             trial_days |-> get_billing_config.trial_days,
             requested_plan_id |-> normalize_plan_id(Get(env.payload, "planId"))]
            @@ env)

\* lines 48-55: the token's email and phone, the payload and its contact
initialize_store_token(env) ==
  LET email == Get(env.token, "email")
      token_phone == Get(env.token, "phone_number")
      email_value == IF IsStr(email) THEN email ELSE None
  IN initialize_store_contact(
       [email_value |-> email_value,
        normalized_email |->
          IF Truthy(email_value) THEN Str(Lower(email_value[2])) ELSE None,
        token_phone |-> IF IsStr(token_phone) THEN token_phone ELSE None,
        contact |-> normalize_contact_payload(Get(env.payload, "contact"))]
       @@ env)

initialize_store(data, ctx, ts, now) ==
  IF ~ctx.auth THEN Raise("unauthenticated", created)
  ELSE initialize_store_token(
         [uid |-> ctx.uid, token |-> ctx.token,
          payload |-> IF Truthy(data) THEN data[2] ELSE EmptyDoc,
          timestamp |-> TimestampAt(ts), now |-> TimestampAt(now)])

store_status_contract_first(store_data) ==
  Or(Get(store_data, "contractStatus"), get_optional_string(Get(store_data, "status")))

\* line 288: the status resolve_store_access evaluates
store_status(store_data) ==
  Or(get_optional_string(Get(store_data, "status")), Get(store_data, "contractStatus"))

(***************************************************************************)
(* callables.py: resolve_store_access(data, context)                       *)
(***************************************************************************)
resolve_store_access(data, ctx) ==
  IF ~ctx.auth THEN Raise("unauthenticated", created)
  ELSE
  LET uid == ctx.uid
      created1 == created \cup {ROSTER_MEMBERS}
      member_snap == DocGet(roster, uid)
      member_data == member_snap.data
  IN
  IF ~member_snap.exists THEN Raise("permission-denied", created1)
  ELSE
  LET store_id == Or(get_optional_string(Get(member_data, "storeId")), Str(uid))
      workspace_slug == Or(get_optional_string(Get(member_data, "workspaceSlug")), store_id)
      created2 == created1 \cup {DEFAULT_STORES}
      store_snap == DocGet(stores, store_id[2])
      store_data == store_snap.data
  IN
  IF ~store_snap.exists THEN Raise("failed-precondition", created2)
  ELSE
  IF is_inactive_contract_status(IF IsStr(store_status(store_data))
                                 THEN store_status(store_data) ELSE None)
  THEN Raise("permission-denied", created2)
  ELSE
  LET role == IF "role" \in DOMAIN member_data THEN member_data["role"] ELSE Str(STAFF)
      claimed == update_user_claims(users, uid, role)
  IN
  [code |-> "ok", roster |-> roster, defMembers |-> defMembers, stores |-> stores,
   workspaces |-> workspaces, created |-> created2, users |-> claimed.users,
   calls |-> calls,
   res |-> [ok |-> TRUE, storeId |-> store_id, workspaceSlug |-> workspace_slug,
            claims |-> claimed.claims,
            teamMember |-> [id |-> uid, data |-> serialize_firestore_data(member_data)],
            store |-> [id |-> store_id[2], data |-> serialize_firestore_data(store_data)]]]

(***************************************************************************)
(* callables.py: manage_staff_account(data, context)                       *)
(***************************************************************************)
\* mutant: the guard of assert_staff_access, any valid role passes
assert_owner_access_any_role(ctx) ==
  IF ~ctx.auth THEN "unauthenticated"
  ELSE IF ~Truthy(get_role_from_token(ctx.token)) THEN "permission-denied"
  ELSE "ok"

\* assert_authenticated and assert_owner_access: "ok" or the code raised
assert_owner_access(ctx) ==
  IF ~ctx.auth THEN "unauthenticated"
  ELSE IF get_role_from_token(ctx.token) # Str(OWNER) THEN "permission-denied"
  ELSE "ok"

\* normalize_manage_staff_payload(data): [err, store_id, email, role, password]
normalize_manage_staff_payload(data) ==
  LET store_id == Or(get_optional_string(Get(data, "storeId")), Str(<<>>))
      email == Or(get_optional_email(Get(data, "email")), Str(<<>>))
      role == Or(get_optional_string(Get(data, "role")), Str(<<>>))
      password_raw == Get(data, "password")
      password_bad ==
        ~(password_raw = None \/ password_raw = Str(<<>>)) /\ ~IsStr(password_raw)
      password ==
        IF password_raw = None \/ password_raw = Str(<<>>) THEN None ELSE password_raw
  IN [err |-> password_bad \/ ~Truthy(store_id) \/ ~Truthy(email) \/ ~Truthy(role)
               \/ role[2] \notin VALID_ROLES,
      store_id |-> store_id, email |-> email, role |-> role, password |-> password]

manage_staff_account(data, ctx, ts) ==
  IF assert_owner_access(ctx) # "ok" THEN Raise(assert_owner_access(ctx), created)
  ELSE
  LET payload == IF Truthy(data) THEN data[2] ELSE EmptyDoc
      normalized == normalize_manage_staff_payload(payload)
  IN
  IF normalized.err THEN Raise("invalid-argument", created)
  ELSE
  LET store_id == normalized.store_id
      email == normalized.email
      role == normalized.role
      invited_by == Str(ctx.uid)
      ensured == ensure_user(users, email[2], normalized.password)
  IN
  IF ensured.err THEN Raise("internal", created)
  ELSE
  LET member_snap == DocGet(roster, ensured.uid)
      timestamp == TimestampAt(ts)
      member_data ==
        WithCreatedAt(
          [uid |-> Str(ensured.uid), email |-> email, storeId |-> store_id, role |-> role,
           invitedBy |-> invited_by, updatedAt |-> timestamp],
          member_snap, timestamp)
      roster1 == DocSetMerge(roster, ensured.uid, member_data)
      email_snap == DocGet(roster1, email[2])
      email_data == WithCreatedAt(("email" :> email) @@ member_data, email_snap, timestamp)
      roster2 == DocSetMerge(roster1, email[2], email_data)
      claimed == update_user_claims(ensured.users, ensured.uid, role)
  IN
  [code |-> "ok", roster |-> roster2, defMembers |-> defMembers, stores |-> stores,
   workspaces |-> workspaces, created |-> created \cup {ROSTER_MEMBERS},
   users |-> claimed.users, calls |-> calls + 1,
   res |-> [ok |-> TRUE, role |-> role, email |-> email, uid |-> Str(ensured.uid),
            created |-> ensured.created, storeId |-> store_id,
            claims |-> claimed.claims]]

(***************************************************************************)
(* Callers and payloads                                                    *)
(***************************************************************************)
U1 == <<"u", "1">>
UID_1 == <<"u", "i", "d", "_", "1">>
S2 == <<"s", "2">>
EMAIL_A == <<"A", "@", "x">>
EMAIL_s == <<"s", "@", "x">>
EMAIL_S_PADDED == <<" ", "S", "@", "x">>
PLAN_PRO_RAW == <<" ", "P", "r", "o">>
PLAN_BOGUS == <<"b", "o", "g", "u", "s">>
PHONE == <<"5">>
BUSINESS_RAW == <<" ", "B", " ">>
PASSWORD == <<"p", "w">>
ADMIN == <<"a", "d", "m", "i", "n">>
OWNER_CAP == <<"O", "w", "n", "e", "r">>

\* CallableContext(auth=None) and CallableContext(auth=AuthContext(uid, token))
NoAuth == [auth |-> FALSE, uid |-> <<>>, token |-> EmptyDoc]
Auth(uid, token) == [auth |-> TRUE, uid |-> uid, token |-> token]

\* callers: initialize_store and resolve_store_access read the token's email,
\* manage_staff_account reads the token's role
OwnerCtx == Auth(U1, [email |-> Str(EMAIL_A)])
StaffCtx == Auth(UID_1, [email |-> Str(EMAIL_s)])
Contexts == {NoAuth, OwnerCtx, StaffCtx}

ManageContexts ==
  { NoAuth,
    Auth(U1, [role |-> Str(OWNER_CAP)]),
    Auth(UID_1, [role |-> Str(STAFF)]),
    Auth(UID_1, EmptyDoc) }

PlanAndContactPayload ==
  Map([planId |-> Str(PLAN_PRO_RAW),
       contact |-> Map([phone |-> Str(PHONE), businessName |-> Str(BUSINESS_RAW)])])

InitPayloads ==
  { Map(EmptyDoc),
    PlanAndContactPayload,
    Map([planId |-> Str(PLAN_BOGUS)]),
    Map([contact |-> Map([phone |-> Num(5)])]) }

StaffPayload ==
  Map([storeId |-> Str(U1), email |-> Str(EMAIL_S_PADDED), role |-> Str(STAFF),
       password |-> Str(PASSWORD)])

MovePayload == Map([storeId |-> Str(S2), email |-> Str(EMAIL_s), role |-> Str(OWNER)])

ManagePayloads ==
  { StaffPayload,
    MovePayload,
    Map([storeId |-> Str(U1), email |-> Str(EMAIL_s), role |-> Str(ADMIN),
         password |-> Str(PASSWORD)]) }

(***************************************************************************)
(* State machine                                                           *)
(***************************************************************************)
Init ==
  /\ roster = EmptyDoc
  /\ defMembers = EmptyDoc
  /\ stores = EmptyDoc
  /\ workspaces = EmptyDoc
  /\ created = {}
  /\ users = <<>>
  /\ calls = 0
  /\ last = [op |-> "none", ctx |-> NoAuth, data |-> None, code |-> "none",
             fresh |-> FALSE, twice |-> FALSE, res |-> NoResult]
  /\ returned = EmptyDoc
  /\ external = 0
  /\ inflight = <<>>
  /\ provisioned = <<>>

\* the state after a call with outcome out; fresh: the caller had no roster
\* document before the call; twice: the call repeats the call before it, which
\* was a successful initialize_store of a fresh caller
Return(op, ctx, data, out) ==
  /\ roster' = out.roster
  /\ defMembers' = out.defMembers
  /\ stores' = out.stores
  /\ workspaces' = out.workspaces
  /\ created' = out.created
  /\ users' = out.users
  /\ calls' = out.calls
  /\ last' = [op |-> op, ctx |-> ctx, data |-> data, code |-> out.code,
              fresh |-> ctx.auth /\ ctx.uid \notin DOMAIN roster,
              twice |-> /\ op = "initialize_store" /\ out.code = "ok"
                        /\ last.op = op /\ last.code = "ok" /\ last.fresh
                        /\ last.ctx = ctx /\ last.data = data,
              res |-> out.res]
  /\ returned' =
       IF op = "initialize_store" /\ out.code = "ok" /\ ctx.uid \notin DOMAIN returned
       THEN (ctx.uid :> out.res.storeId) @@ returned
       ELSE returned
  /\ external' = external
  /\ provisioned' =
       IF op = "manage_staff_account" /\ out.code = "ok"
          /\ out.res.email[2] \notin DOMAIN provisioned
       THEN (out.res.email[2] :> out.res.uid) @@ provisioned
       ELSE provisioned

\* the state after a call that ran alone
Apply(op, ctx, data, out) ==
  /\ Return(op, ctx, data, out)
  /\ inflight' = inflight

\* The wall clock, in ticks: the k-th call that reads it sees tick 2k at
\* server_timestamp() and, inside initialize_store, tick 2k+1 at the later
\* Timestamp.now().
ClockTick == 2 * (calls + 1)

\* an unauthenticated call is rejected before its payload is read: it is made
\* with the empty payload only
InitCalls ==
  {call \in Contexts \X InitPayloads : call[1].auth \/ call[2] = Map(EmptyDoc)}

\* a caller without the owner role is rejected before the payload is read: such
\* calls are made with one payload only
ManageCalls ==
  {call \in ManageContexts \X ManagePayloads :
     assert_owner_access(call[1]) = "ok" \/ call[2] = StaffPayload}

InitializeStore ==
  \E call \in InitCalls :
    /\ calls < MaxCalls
    /\ \E out \in {initialize_store(call[2], call[1], ClockTick, ClockTick + 1)} :
         Apply("initialize_store", call[1], call[2], out)

ResolveStoreAccessTouchingMember ==
  \E ctx \in Contexts :
    \E out \in {resolve_store_access(None, ctx)} :
      Apply("resolve_store_access", ctx, None,
            [out EXCEPT !.roster =
               IF out.code = "ok"
               THEN DocSetMerge(roster, ctx.uid, [updatedAt |-> TimestampAt(ClockTick)])
               ELSE roster])

ResolveStoreAccess ==
  \E ctx \in Contexts :
    \E out \in {resolve_store_access(None, ctx)} :
      Apply("resolve_store_access", ctx, None, out)

ManageStaffAccount ==
  \E call \in ManageCalls :
    /\ calls < MaxCalls
    /\ \E out \in {manage_staff_account(call[2], call[1], ClockTick)} :
         Apply("manage_staff_account", call[1], call[2], out)

Next == InitializeStore \/ ResolveStoreAccess \/ ManageStaffAccount

Spec == Init /\ [][Next]_vars

(***************************************************************************)
(* Writes made outside the three callables, through the same two           *)
(* abstractions: an administrator changes a store's status with            *)
(* DocumentReference.update, and custom claims written earlier with        *)
(* InMemoryAuth.set_custom_user_claims are still on an identity record.    *)
(***************************************************************************)
SUSPENDED == <<"S", "u", "s", "p", "e", "n", "d", "e", "d">>
StatusValues == {Str(SUSPENDED)}

LegacyClaims ==
  [role |-> Str(OWNER), stores |-> Str(S2), activeStoreId |-> Str(S2),
   storeId |-> Str(S2), roleByStore |-> Map([s2 |-> Str(OWNER)])]

ForeignClaims == [role |-> Str(OWNER), storeId |-> Str(S2), beta |-> Str(<<"1">>)]

ClaimValues == {LegacyClaims, ForeignClaims}

External(op, data) ==
  /\ external < MaxExternal
  /\ external' = external + 1
  /\ last' = [op |-> op, ctx |-> NoAuth, data |-> data, code |-> "ok",
              fresh |-> FALSE, twice |-> FALSE, res |-> NoResult]
  /\ UNCHANGED <<inflight, provisioned>>

UpdateStoreStatus ==
  \E id \in DOMAIN stores, status \in StatusValues :
    /\ External("update", Map([id |-> Str(id), status |-> status]))
    /\ stores' = DocUpdate(stores, id, [status |-> status]).coll
    /\ UNCHANGED <<roster, defMembers, workspaces, created, users, calls, returned>>

SetCustomUserClaims ==
  \E i \in 1..Len(users), claims \in ClaimValues :
    /\ External("set_custom_user_claims", Map([uid |-> Str(users[i].uid)]))
    /\ users' = set_custom_user_claims(users, users[i].uid, claims)
    /\ UNCHANGED <<roster, defMembers, stores, workspaces, created, calls, returned>>

NextExt ==
  \/ (calls < MaxExtCalls /\ InitializeStore)
  \/ ResolveStoreAccess
  \/ (calls < MaxExtCalls /\ ManageStaffAccount)
  \/ UpdateStoreStatus
  \/ SetCustomUserClaims

SpecExt == Init /\ [][NextExt]_vars

(***************************************************************************)
(* A caller whose uid has the form of the uids that InMemoryAuth.create_user *)
(* allocates ("uid_" and a number): the uid of a caller is chosen by the     *)
(* caller's token, ensure_uid registers it as it is.                         *)
(***************************************************************************)
UID_2 == <<"u", "i", "d", "_", "2">>

ProviderUidCtx == Auth(UID_2, [email |-> Str(EMAIL_A)])

InitializeStoreProviderUid ==
  /\ calls < MaxUidCalls
  /\ \E out \in {initialize_store(Map(EmptyDoc), ProviderUidCtx, ClockTick, ClockTick + 1)} :
       Apply("initialize_store", ProviderUidCtx, Map(EmptyDoc), out)

ResolveStoreAccessProviderUid ==
  \E out \in {resolve_store_access(None, ProviderUidCtx)} :
    Apply("resolve_store_access", ProviderUidCtx, None, out)

PASSWORD_2 == <<"p", "w", "2">>

NewPasswordPayload ==
  Map([storeId |-> Str(U1), email |-> Str(EMAIL_s), role |-> Str(STAFF),
       password |-> Str(PASSWORD_2)])

ManageStaffAccountNewPassword ==
  /\ calls < MaxUidCalls
  /\ \E ctx \in {Auth(U1, [role |-> Str(OWNER_CAP)])} :
       \E out \in {manage_staff_account(NewPasswordPayload, ctx, ClockTick)} :
         Apply("manage_staff_account", ctx, NewPasswordPayload, out)

EMAIL_t == <<"t", "@", "x">>

SecondStaffPayload ==
  Map([storeId |-> Str(U1), email |-> Str(EMAIL_t), role |-> Str(STAFF),
       password |-> Str(PASSWORD)])

ManageStaffAccountSecondEmail ==
  /\ calls < MaxUidCalls
  /\ \E ctx \in {Auth(U1, [role |-> Str(OWNER_CAP)])} :
       \E out \in {manage_staff_account(SecondStaffPayload, ctx, ClockTick)} :
         Apply("manage_staff_account", ctx, SecondStaffPayload, out)

NextUid ==
  \/ InitializeStoreProviderUid
  \/ ResolveStoreAccessProviderUid
  \/ (calls < MaxUidCalls /\ ManageStaffAccount)
  \/ ManageStaffAccountNewPassword
  \/ ManageStaffAccountSecondEmail

SpecUid == Init /\ [][NextUid]_vars

(***************************************************************************)
(* The document store on its own: documents with a scalar field and a      *)
(* nested map are written to the stores collection with                    *)
(* DocumentReference.set(data, merge=True).                                 *)
(***************************************************************************)
DocIds == {S2}

BillingMaps ==
  {Map(billing) : billing \in
     UNION {[keys -> {Str(PRO)}] : keys \in SUBSET {"planId", "provider"}}}

WrittenDocs ==
  UNION {[keys -> {Str(ACTIVE_CAP), Str(SUSPENDED)} \cup BillingMaps] : keys \in SUBSET {"status", "billing"}}

DocumentSetMerge ==
  \E id \in DocIds, data \in WrittenDocs :
    /\ stores' = DocSetMerge(stores, id, data)
    /\ last' = [op |-> "set", ctx |-> NoAuth, data |-> Map([id |-> Str(id), data |-> Map(data)]),
                code |-> "ok", fresh |-> FALSE, twice |-> FALSE, res |-> NoResult]
    /\ UNCHANGED <<roster, defMembers, workspaces, created, users, calls, returned, external,
                   inflight, provisioned>>

NextStore == DocumentSetMerge

SpecStore == Init /\ [][NextStore]_vars

(***************************************************************************)
(* is_inactive_contract_status on its own: applied to None and to status   *)
(* strings made of one word, or of two words around a separator.           *)
(***************************************************************************)
StatusWords ==
  { <<>>, <<"o", "n">>, <<"h", "o", "l", "d">>, <<"P", "a", "u", "s", "e", "d">>,
    <<"a", "c", "t", "i", "v", "e">>, <<"h", "o", "l", "d", "o", "v", "e", "r">> }

StatusSeparators == {"-", "_", " "}

StatusStrings ==
  StatusWords
  \cup {a \o <<sep>> \o b : <<a, sep, b>> \in StatusWords \X StatusSeparators \X StatusWords}

StatusInputs == {None} \cup {Str(s) : s \in StatusStrings}

IsInactiveContractStatus ==
  \E value \in StatusInputs :
    /\ last' = [op |-> "is_inactive_contract_status", ctx |-> NoAuth, data |-> value,
                code |-> "ok", fresh |-> FALSE, twice |-> FALSE,
                res |-> [inactive |-> is_inactive_contract_status(value)]]
    /\ UNCHANGED <<roster, defMembers, stores, workspaces, created, users, calls,
                   returned, external, inflight, provisioned>>

NextStatus == IsInactiveContractStatus

SpecStatus == Init /\ [][NextStatus]_vars

(***************************************************************************)
(* An administrator writes the status fields of the store s2 with          *)
(* DocumentReference.set(data, merge=True), before or after a member is     *)
(* moved to that store.                                                     *)
(***************************************************************************)
BLANK == <<" ">>
PENDING == <<"P", "e", "n", "d", "i", "n", "g">>

StatusDocs ==
  UNION {[keys -> {Str(SUSPENDED), Str(BLANK), Str(PENDING)}] :
           keys \in SUBSET {"status", "contractStatus"}}

WriteStoreStatus ==
  \E data \in StatusDocs :
    /\ External("set", Map([id |-> Str(S2), data |-> Map(data)]))
    /\ stores' = DocSetMerge(stores, S2, data)
    /\ UNCHANGED <<roster, defMembers, workspaces, created, users, calls, returned>>

NextAccess ==
  \/ (calls < MaxExtCalls /\ InitializeStore)
  \/ ResolveStoreAccess
  \/ (calls < MaxExtCalls /\ ManageStaffAccount)
  \/ WriteStoreStatus

SpecAccess == Init /\ [][NextAccess]_vars

(***************************************************************************)
(* Overlapping initialize_store calls.  The callable is not a transaction: *)
(* it reads its snapshots and the clock (lines 70-117), computes the       *)
(* documents, and then writes them (lines 142-249).  A call that has read  *)
(* is in flight until it writes; another call can read or write meanwhile. *)
(***************************************************************************)
MaxInflight == 2
MaxRaceCalls == 4

Processes == 1..MaxInflight

RaceCalls ==
  {<<OwnerCtx, Map(EmptyDoc)>>, <<OwnerCtx, PlanAndContactPayload>>,
   <<StaffCtx, Map(EmptyDoc)>>}

\* a call reads: its local variables are those of a call made in this state
BeginInitializeStore ==
  \E p \in Processes \ DOMAIN inflight, call \in RaceCalls :
    /\ calls < MaxRaceCalls
    /\ \E out \in {initialize_store(call[2], call[1], ClockTick, ClockTick + 1)} :
         /\ out.code = "ok"
         /\ inflight' = (p :> [ctx |-> call[1], data |-> call[2],
                               fresh |-> call[1].uid \notin DOMAIN roster,
                               locals |-> out.locals]) @@ inflight
         /\ created' = out.created
    /\ calls' = calls + 1
    /\ UNCHANGED <<roster, defMembers, stores, workspaces, users, last, returned, external,
                   provisioned>>

CommitOutcomeInTransaction(p) ==
  initialize_store(inflight[p].data, inflight[p].ctx, ClockTick, ClockTick + 1)

\* the outcome of the call in flight as process p, when it writes in this state
CommitOutcome(p) ==
  initialize_store_return(
    initialize_store_writes(inflight[p].locals,
                            [roster |-> roster, defMembers |-> defMembers,
                             stores |-> stores, workspaces |-> workspaces])
    @@ inflight[p].locals)

\* a call in flight writes its documents and returns
CommitInitializeStore ==
  \E p \in DOMAIN inflight :
    /\ \E out \in {CommitOutcome(p)} :
         Return("initialize_store", inflight[p].ctx, inflight[p].data, out)
    /\ inflight' = [q \in DOMAIN inflight \ {p} |-> inflight[q]]

NextRace == BeginInitializeStore \/ CommitInitializeStore

SpecRace == Init /\ [][NextRace]_vars

(***************************************************************************)
(* Properties                                                              *)
(***************************************************************************)
\* two versions of a collection hold the same documents up to "updatedAt"
SameExceptUpdatedAt(before, after) ==
  /\ DOMAIN before = DOMAIN after
  /\ \A id \in DOMAIN before :
       /\ DOMAIN before[id] = DOMAIN after[id]
       /\ \A key \in DOMAIN before[id] \ {"updatedAt"} : before[id][key] = after[id][key]

IsCall(call, op) == call.op = op /\ call.code = "ok"

\* C1: when initialize_store is called twice in a row with the same payload and
\* context for a uid that had no TeamMember document, the second call returns
\* the same storeId, contractStart, contractEnd and workspaceSlug as the first,
\* and the documents stored after the second call differ from those stored
\* after the first only in updatedAt.
C1_IdempotentOnboarding ==
  [][last'.twice =>
       /\ last'.res.storeId = last.res.storeId
       /\ last'.res.store.data["contractStart"] = last.res.store.data["contractStart"]
       /\ last'.res.store.data["contractEnd"] = last.res.store.data["contractEnd"]
       /\ last'.res.workspace.id = last.res.workspace.id
       /\ last'.res.teamMember.data["workspaceSlug"]
            = last.res.teamMember.data["workspaceSlug"]
       /\ SameExceptUpdatedAt(roster, roster')
       /\ SameExceptUpdatedAt(defMembers, defMembers')
       /\ SameExceptUpdatedAt(stores, stores')
       /\ SameExceptUpdatedAt(workspaces, workspaces')]_vars

\* the second of two identical initialize_store calls of a new uid has returned,
\* and updatedAt has moved on from createdAt
W_C1 ==
  /\ last.twice
  /\ roster[last.ctx.uid]["updatedAt"] # roster[last.ctx.uid]["createdAt"]

\* C2: manage_staff_account called by an authenticated caller whose token role
\* is staff or absent fails with permission-denied and leaves the roster store,
\* the default store and the identity provider as they were.
C2_OwnerOnlyProvisioning ==
  [][(/\ last'.op = "manage_staff_account"
      /\ last'.ctx.auth
      /\ Get(last'.ctx.token, "role") \in {Str(STAFF), None})
     => /\ last'.code = "permission-denied"
        /\ UNCHANGED <<roster, defMembers, stores, workspaces, created, users>>]_vars

\* a caller with the staff role has been refused while documents and users exist
W_C2 ==
  /\ last.op = "manage_staff_account"
  /\ last.code = "permission-denied"
  /\ Get(last.ctx.token, "role") = Str(STAFF)
  /\ roster # EmptyDoc
  /\ users # <<>>

\* the store a member's document points at
MemberStoreId(uid) ==
  IF "storeId" \in DOMAIN roster[uid] THEN roster[uid]["storeId"][2] ELSE uid

\* C3: for a caller with a TeamMember document whose Store document exists,
\* resolve_store_access fails with permission-denied when the store's status is
\* "Suspended", and succeeds with claims.role equal to the TeamMember's role
\* when the status is "Active".
C3_AccessGating ==
  (/\ last.op = "resolve_store_access"
   /\ last.ctx.auth
   /\ last.ctx.uid \in DOMAIN roster
   /\ MemberStoreId(last.ctx.uid) \in DOMAIN stores)
  => LET status == Get(stores[MemberStoreId(last.ctx.uid)], "status")
     IN /\ status = Str(SUSPENDED) => last.code = "permission-denied"
        /\ status = Str(ACTIVE_CAP) =>
             /\ last.code = "ok"
             /\ last.res.claims["role"] = roster[last.ctx.uid]["role"]

\* a member of a suspended store has been refused
W_C3 ==
  /\ last.op = "resolve_store_access"
  /\ last.code = "permission-denied"
  /\ last.ctx.uid \in DOMAIN roster
  /\ MemberStoreId(last.ctx.uid) \in DOMAIN stores
  /\ stores[MemberStoreId(last.ctx.uid)]["status"] = Str(SUSPENDED)

\* the storeId initialize_store is to return for uid in the current state
RecordedStoreId(uid) ==
  IF uid \in DOMAIN roster THEN roster[uid]["storeId"] ELSE Str(uid)

\* C4 as claimed: every successful initialize_store call of one uid returns the
\* same storeId, which is the uid when the uid has no TeamMember document and
\* the storeId recorded on that document otherwise.
C4_SameStoreIdForEver ==
  [][IsCall(last', "initialize_store") =>
       /\ last'.res.storeId = RecordedStoreId(last'.ctx.uid)
       /\ last'.ctx.uid \in DOMAIN returned =>
            last'.res.storeId = returned[last'.ctx.uid]]_vars

\* C4 amended: a successful initialize_store returns the uid when the uid has
\* no TeamMember document and the storeId recorded on that document otherwise,
\* and records it; the storeId recorded for a uid that has called
\* initialize_store changes only in a manage_staff_account call that writes
\* that uid's TeamMember document.
C4_StoreIdFromMember ==
  [][/\ IsCall(last', "initialize_store") =>
          /\ last'.res.storeId = RecordedStoreId(last'.ctx.uid)
          /\ roster'[last'.ctx.uid]["storeId"] = last'.res.storeId
     /\ \A uid \in DOMAIN returned :
          ~(IsCall(last', "manage_staff_account") /\ last'.res.uid = Str(uid))
          => roster'[uid]["storeId"] = roster[uid]["storeId"]]_vars

\* a member provisioned under another store has called initialize_store again
\* and got the recorded store, not its uid
W_C4 ==
  /\ IsCall(last, "initialize_store")
  /\ ~last.fresh
  /\ last.ctx.uid \in DOMAIN returned
  /\ last.res.storeId # Str(last.ctx.uid)
  /\ last.res.storeId = returned[last.ctx.uid]

HasContractWindow(store) ==
  "contractStart" \in DOMAIN store /\ "contractEnd" \in DOMAIN store

\* the wire form of a point in time
Millis(ts) == Map("_millis" :> Num(ts[2]))

\* C5: once a Store document has contractStart and contractEnd no call changes
\* either value, and an initialize_store for that store returns them.
C5_ContractWindowFirstWriteWins ==
  [][\A id \in DOMAIN stores :
       HasContractWindow(stores[id]) =>
         /\ id \in DOMAIN stores'
         /\ stores'[id]["contractStart"] = stores[id]["contractStart"]
         /\ stores'[id]["contractEnd"] = stores[id]["contractEnd"]
         /\ (IsCall(last', "initialize_store") /\ last'.res.store.id = id) =>
              /\ last'.res.store.data["contractStart"] = Millis(stores[id]["contractStart"])
              /\ last'.res.store.data["contractEnd"] = Millis(stores[id]["contractEnd"])]_vars

\* initialize_store has run on a store created by an earlier call and returned
\* the window of that earlier call
W_C5 ==
  /\ IsCall(last, "initialize_store")
  /\ "createdAt" \notin DOMAIN last.res.store.data
  /\ stores[last.res.store.id]["updatedAt"] # stores[last.res.store.id]["createdAt"]
  /\ last.res.store.data["contractStart"] = Millis(stores[last.res.store.id]["contractStart"])
  /\ stores[last.res.store.id]["contractStart"][2]
       < stores[last.res.store.id]["updatedAt"][2]

CreatedAtKept(before, after) ==
  \A id \in DOMAIN before :
    /\ id \in DOMAIN after
    /\ IF "createdAt" \in DOMAIN before[id]
       THEN after[id]["createdAt"] = before[id]["createdAt"]
       ELSE "createdAt" \notin DOMAIN after[id]

\* C6: createdAt of a TeamMember (uid key and email key), Store or Workspace
\* document is written by the call that creates the document only and is
\* never changed by a later call.
C6_CreatedAtWrittenOnce ==
  [][/\ CreatedAtKept(roster, roster')
     /\ CreatedAtKept(defMembers, defMembers')
     /\ CreatedAtKept(stores, stores')
     /\ CreatedAtKept(workspaces, workspaces')]_vars

StoredClaims(us, uid) ==
  IF \E i \in 1..Len(us) : us[i].uid = uid
  THEN us[CHOOSE i \in 1..Len(us) : us[i].uid = uid].custom_claims
  ELSE EmptyDoc

TenancyKeys == {"stores", "activeStoreId", "storeId", "roleByStore"}

\* C7 as claimed: after a successful manage_staff_account with role staff the
\* target's stored and returned claims are exactly {role: staff}, and after a
\* successful initialize_store the caller's are exactly {role: owner}.
C7_ClaimsExactlyRole ==
  /\ (IsCall(last, "manage_staff_account") /\ last.res.role = Str(STAFF)) =>
       /\ last.res.claims = [role |-> Str(STAFF)]
       /\ StoredClaims(users, last.res.uid[2]) = [role |-> Str(STAFF)]
  /\ IsCall(last, "initialize_store") =>
       /\ last.res.claims = [role |-> Str(OWNER)]
       /\ StoredClaims(users, last.ctx.uid) = [role |-> Str(OWNER)]

\* the claims a call is to leave: role set, no tenancy key, nothing that the
\* record did not carry before
HygienicClaims(new, old, role) ==
  /\ "role" \in DOMAIN new
  /\ new["role"] = role
  /\ DOMAIN new \cap TenancyKeys = {}
  /\ DOMAIN new \subseteq {"role"} \cup (DOMAIN old \ TenancyKeys)

\* C7 amended: after a successful manage_staff_account the target's stored and
\* returned claims carry the given role and none of stores, activeStoreId,
\* storeId, roleByStore, and no key the record did not carry before; so they
\* are exactly {role: staff} when the record carried no key besides role and
\* those four.  Likewise for the caller of initialize_store with role owner.
C7_ClaimHygiene ==
  [][/\ IsCall(last', "manage_staff_account") =>
          /\ StoredClaims(users', last'.res.uid[2]) = last'.res.claims
          /\ HygienicClaims(last'.res.claims, StoredClaims(users, last'.res.uid[2]),
                            last'.res.role)
     /\ IsCall(last', "initialize_store") =>
          /\ StoredClaims(users', last'.ctx.uid) = last'.res.claims
          /\ HygienicClaims(last'.res.claims, StoredClaims(users, last'.ctx.uid),
                            Str(OWNER))]_vars

\* a staff account whose record carried storeId and a key of another system
\* has been provisioned again: storeId is gone, the other key is kept
W_C7 ==
  /\ IsCall(last, "manage_staff_account")
  /\ last.res.role = Str(STAFF)
  /\ ~last.res.created
  /\ StoredClaims(users, last.res.uid[2]) = [role |-> Str(STAFF), beta |-> Str(<<"1">>)]

\* a planId that is present and is not a known plan once trimmed and lower-cased
PlanGivenInvalid(data) ==
  /\ IsMap(data)
  /\ "planId" \in DOMAIN data[2]
  /\ data[2]["planId"] # None
  /\ ~(IsStr(data[2]["planId"]) /\ Lower(Strip(data[2]["planId"][2])) \in PLAN_IDS)

\* C8: initialize_store with a planId that is present and unrecognized fails
\* with invalid-argument and creates or changes no document and no claim.
C8_InvalidPlanRejected ==
  [][(/\ last'.op = "initialize_store"
      /\ last'.ctx.auth
      /\ PlanGivenInvalid(last'.data))
     => /\ last'.code = "invalid-argument"
        /\ UNCHANGED <<roster, defMembers, stores, workspaces, users>>]_vars

\* the owner of an existing store has been refused an unknown plan
W_C8 ==
  /\ last.op = "initialize_store"
  /\ last.code = "invalid-argument"
  /\ PlanGivenInvalid(last.data)
  /\ last.ctx.uid \in DOMAIN roster
  /\ last.ctx.uid \in DOMAIN stores

PayloadOf(data) == IF IsMap(data) THEN data[2] ELSE EmptyDoc

\* the plan a call is to resolve, given the stores before the call
ExpectedPlan(data, before, sid) ==
  LET requested == Get(PayloadOf(data), "planId")
  IN IF IsStr(requested) /\ Lower(Strip(requested[2])) \in PLAN_IDS
     THEN Str(Lower(Strip(requested[2])))
     ELSE IF /\ sid \in DOMAIN before
             /\ "billing" \in DOMAIN before[sid]
             /\ "planId" \in DOMAIN before[sid]["billing"][2]
          THEN before[sid]["billing"][2]["planId"]
          ELSE Str(STARTER)

\* C9: a successful initialize_store leaves store.billing.planId and
\* workspace.planId equal to the requested plan if a valid one is given, else
\* to the plan already on the store's billing block, else to starter.
C9_PlanResolution ==
  [][IsCall(last', "initialize_store") =>
       LET sid == last'.res.store.id
           expected == ExpectedPlan(last'.data, stores, sid)
       IN /\ stores'[sid]["billing"][2]["planId"] = expected
          /\ workspaces'[last'.res.workspace.id]["planId"] = expected
          /\ expected[2] \in PLAN_IDS]_vars

\* initialize_store without planId has run on a store that was on pro
W_C9 ==
  /\ IsCall(last, "initialize_store")
  /\ "planId" \notin DOMAIN PayloadOf(last.data)
  /\ "createdAt" \notin DOMAIN last.res.store.data
  /\ stores[last.res.store.id]["billing"][2]["planId"] = Str(PRO)
  /\ workspaces[last.res.workspace.id]["planId"] = Str(PRO)

\* key is email with every upper-case letter replaced by its lower-case letter
IsLowerCaseOf(key, email) ==
  /\ Len(key) = Len(email)
  /\ \A i \in 1..Len(email) :
       IF \E j \in 1..Len(UpperChars) : UpperChars[j] = email[i]
       THEN \E j \in 1..Len(UpperChars) : UpperChars[j] = email[i] /\ LowerChars[j] = key[i]
       ELSE key[i] = email[i]

Mirrored(uid, email) ==
  /\ uid \in DOMAIN roster
  /\ \E key \in DOMAIN roster :
       /\ IsLowerCaseOf(key, email)
       /\ roster[key]["role"] = roster[uid]["role"]
       /\ roster[key]["storeId"] = roster[uid]["storeId"]

\* C10: right after a successful initialize_store whose token carries an email,
\* and right after a successful manage_staff_account, the roster holds a
\* document at the uid key and one at the lower-cased email key, with the same
\* role and storeId.
C10_EmailMirroring ==
  /\ (IsCall(last, "initialize_store") /\ Truthy(Get(last.ctx.token, "email"))) =>
       Mirrored(last.ctx.uid, last.ctx.token["email"][2])
  /\ IsCall(last, "manage_staff_account") =>
       Mirrored(last.res.uid[2], Strip(last.data[2]["email"][2]))

\* a staff account has been provisioned for an email whose mirror document
\* had been written for another uid
W_C10 ==
  /\ IsCall(last, "manage_staff_account")
  /\ last.res.created
  /\ "createdAt" \in DOMAIN roster[last.res.uid[2]]
  /\ EMAIL_s \in DOMAIN roster
  /\ roster[EMAIL_s]["uid"] = last.res.uid
  /\ roster[EMAIL_s]["invitedBy"] = Str(U1)
  /\ Cardinality(DOMAIN roster) >= 3

\* the roster documents stored at their own uid
UidKeys == {key \in DOMAIN roster : Get(roster[key], "uid") = Str(key)}

\* C11: in every reachable state each roster document stored at a uid key
\* whose email is set has a mirror document at the lower-cased email key that
\* carries the same uid, role and storeId.
C11_MirrorConsistent ==
  \A uid \in UidKeys :
    Truthy(Get(roster[uid], "email")) =>
      \E key \in DOMAIN roster :
        /\ IsLowerCaseOf(key, roster[uid]["email"][2])
        /\ Get(roster[key], "uid") = Get(roster[uid], "uid")
        /\ Get(roster[key], "role") = Get(roster[uid], "role")
        /\ Get(roster[key], "storeId") = Get(roster[uid], "storeId")

\* C12: initialize_store with an empty payload records store.ownerEmail, stored
\* and returned, as the lower-cased form of the caller's token email.
C12_OwnerEmailLowerCased ==
  (/\ IsCall(last, "initialize_store")
   /\ last.data = Map(EmptyDoc)
   /\ Truthy(Get(last.ctx.token, "email")))
  => /\ "ownerEmail" \in DOMAIN stores[last.res.store.id]
     /\ IsLowerCaseOf(stores[last.res.store.id]["ownerEmail"][2],
                      last.ctx.token["email"][2])
     /\ last.res.store.data["ownerEmail"] = stores[last.res.store.id]["ownerEmail"]

\* C13: when initialize_store creates a Store, contractEnd minus contractStart
\* is 14 days in milliseconds, stored and returned; billing.trialEndsAt equals
\* contractEnd; the Workspace carries the Store's contractStart and contractEnd.
C13_TrialWindow ==
  [][(IsCall(last', "initialize_store") /\ last'.res.store.id \notin DOMAIN stores) =>
       LET store == stores'[last'.res.store.id]
           workspace == workspaces'[last'.res.workspace.id]
           sent == last'.res.store.data
       IN /\ store["contractEnd"][2] - store["contractStart"][2]
               = 14 * 24 * 60 * 60 * 1000
          /\ sent["contractEnd"][2]["_millis"][2] - sent["contractStart"][2]["_millis"][2]
               = 14 * 24 * 60 * 60 * 1000
          /\ store["billing"][2]["trialEndsAt"] = store["contractEnd"]
          /\ workspace["contractStart"] = store["contractStart"]
          /\ workspace["contractEnd"] = store["contractEnd"]]_vars

\* a store has just been created, at an instant that is not a whole millisecond
W_C13 ==
  /\ IsCall(last, "initialize_store")
  /\ "createdAt" \in DOMAIN last.res.store.data
  /\ stores[last.res.store.id]["contractStart"][3] # 0
  /\ stores[last.res.store.id]["contractEnd"][2] > 14 * 24 * 60 * 60 * 1000

\* C14: resolve_store_access fails with unauthenticated without authentication;
\* else with permission-denied when the caller has no TeamMember document;
\* else with failed-precondition when the Store at the member's storeId (the
\* uid when the member has none) does not exist; only a call that passes the
\* three checks ends by the store's status: ok or permission-denied.
\* (resolve_store_access writes neither the roster nor the stores.)
C14_ResolveCheckOrder ==
  last.op = "resolve_store_access" =>
    IF ~last.ctx.auth THEN last.code = "unauthenticated"
    ELSE IF last.ctx.uid \notin DOMAIN roster THEN last.code = "permission-denied"
    ELSE IF MemberStoreId(last.ctx.uid) \notin DOMAIN stores
         THEN last.code = "failed-precondition"
    ELSE last.code \in {"ok", "permission-denied"}

\* a member whose store does not exist has been refused
W_C14 ==
  /\ last.op = "resolve_store_access"
  /\ last.code = "failed-precondition"
  /\ last.ctx.uid \in DOMAIN roster
  /\ MemberStoreId(last.ctx.uid) # last.ctx.uid
  /\ MemberStoreId(last.ctx.uid) \notin DOMAIN stores

ErrorCodes ==
  {"unauthenticated", "permission-denied", "invalid-argument", "failed-precondition",
   "internal"}

\* C15: a call of initialize_store, resolve_store_access or
\* manage_staff_account that ends with a typed error leaves every document of
\* the roster store and of the default store and every identity record as it
\* was.
C15_NoPartialWrite ==
  [][(/\ last'.op \in {"initialize_store", "resolve_store_access", "manage_staff_account"}
      /\ last'.code \in ErrorCodes)
     => UNCHANGED <<roster, defMembers, stores, workspaces, users>>]_vars

\* the creation of an account without a password has been refused while
\* documents and identity records existed
W_C15 ==
  /\ last.op = "manage_staff_account"
  /\ last.code = "internal"
  /\ roster # EmptyDoc
  /\ users # <<>>

\* the payload of a manage_staff_account call names role staff and the email of
\* the member document doc
DemotionRequested(call, doc) ==
  /\ IsCall(call, "manage_staff_account")
  /\ Get(PayloadOf(call.data), "role") = Str(STAFF)
  /\ IsStr(Get(PayloadOf(call.data), "email"))
  /\ IsStr(Get(doc, "email"))
  /\ Lower(Strip(call.data[2]["email"][2])) = Lower(doc["email"][2])

\* C16: no call removes a TeamMember document, and the role on a uid's
\* TeamMember document changes from owner to staff only in a
\* manage_staff_account call whose payload role is staff and whose payload
\* email is that member's email.
C16_NoImplicitDemotion ==
  [][/\ DOMAIN roster \subseteq DOMAIN roster'
     /\ \A uid \in UidKeys :
          (Get(roster[uid], "role") = Str(OWNER) /\ Get(roster'[uid], "role") = Str(STAFF))
          => DemotionRequested(last', roster[uid])]_vars

\* the store document has a workspace slug and a workspace document at that key
HasWorkspace(storeDocs, workspaceDocs, id) ==
  /\ IsStr(Get(storeDocs[id], "workspaceSlug"))
  /\ storeDocs[id]["workspaceSlug"][2] \in DOMAIN workspaceDocs

\* C17: every Store document has a Workspace document at the key equal to the
\* store's workspaceSlug, and the workspace slug of a store never changes once
\* it is assigned.
C17_WorkspacePerStore ==
  [][/\ \A id \in DOMAIN stores' : HasWorkspace(stores', workspaces', id)
     /\ \A id \in DOMAIN stores :
          /\ id \in DOMAIN stores'
          /\ Get(stores'[id], "workspaceSlug") = Get(stores[id], "workspaceSlug")]_vars

\* initialize_store has run again on a store that is not the caller's own uid
W_C17 ==
  /\ IsCall(last, "initialize_store")
  /\ "createdAt" \notin DOMAIN last.res.store.data
  /\ last.res.store.id # last.ctx.uid
  /\ HasWorkspace(stores, workspaces, last.res.store.id)
  /\ workspaces[stores[last.res.store.id]["workspaceSlug"][2]]["storeId"]
       = Str(last.res.store.id)

\* the nested map written at key: the keys of the stored nested map that the
\* written one lacks are still present, the written keys carry the written values
NestedMerged(before, data, after, key) ==
  /\ IsMap(after[key])
  /\ \A k \in DOMAIN before[key][2] \ DOMAIN data[key][2] : k \in DOMAIN after[key][2]
  /\ \A k \in DOMAIN data[key][2] :
       k \in DOMAIN after[key][2] /\ after[key][2][k] = data[key][2][k]

\* C18: set(data, merge=True) on an existing document merges nested maps key by
\* key (a key of a stored nested map that the written nested map lacks is still
\* present after the write), while the other written values replace the stored
\* ones.
C18_NestedMerge ==
  [][(last'.op = "set" /\ last'.data[2]["id"][2] \in DOMAIN stores)
     => LET id == last'.data[2]["id"][2]
            data == last'.data[2]["data"][2]
        IN \A key \in DOMAIN data :
             IF IsMap(data[key]) /\ key \in DOMAIN stores[id] /\ IsMap(stores[id][key])
             THEN NestedMerged(stores[id], data, stores'[id], key)
             ELSE stores'[id][key] = data[key]]_vars

\* C19: create_user allocates a uid that no identity record uses, whatever
\* records ensure_uid, create_user and ensure_user have made before, and it
\* leaves every existing record in place.
C19_FreshUid ==
  [][(IsCall(last', "manage_staff_account") /\ last'.res.created)
     => /\ UserIndex(users, last'.res.uid[2]) = 0
        /\ Len(users') = Len(users) + 1
        /\ \A i \in 1..Len(users) : users'[i] = users[i]]_vars

\* the indexes of the identity records whose email is email, letter case aside
UsersWithEmail(us, email) ==
  {i \in 1..Len(us) : IsStr(us[i].email) /\ Lower(us[i].email[2]) = Lower(email)}

\* the payload carries a password that is a non-empty string
PasswordSupplied(payload) ==
  IsStr(Get(payload, "password")) /\ payload["password"][2] # <<>>

\* one identity record has been written, the one at uid, with email and password;
\* the record of every other uid is as it was
OneUserCreated(before, after, uid, email, password) ==
  /\ UserIndex(after, uid) # 0
  /\ after[UserIndex(after, uid)].email = Str(email)
  /\ after[UserIndex(after, uid)].password = password
  /\ Len(after) <= Len(before) + 1
  /\ \A i \in 1..Len(before) : before[i].uid # uid => after[i] = before[i]

\* C20: ensure_user(email, password), as manage_staff_account calls it: a user
\* with that email (letter case aside) is returned with created = false, its
\* password changed only when one is supplied; with no such user and a password
\* one user is created and created = true; with no such user and no password
\* nothing is created and manage_staff_account fails with internal.
C20_EnsureUser ==
  [][(last'.op = "manage_staff_account" /\ last'.code \in {"ok", "internal"})
     => LET payload == PayloadOf(last'.data)
            email == Lower(Strip(payload["email"][2]))
            matches == UsersWithEmail(users, email)
        IN IF matches # {}
           THEN /\ last'.code = "ok"
                /\ ~last'.res.created
                /\ Len(users') = Len(users)
                /\ \E i \in matches :
                     /\ last'.res.uid = Str(users[i].uid)
                     /\ users'[i].uid = users[i].uid
                     /\ users'[i].email = users[i].email
                     /\ users'[i].password =
                          IF PasswordSupplied(payload) THEN payload["password"]
                          ELSE users[i].password
                     /\ \A j \in 1..Len(users) : j # i => users'[j] = users[j]
           ELSE IF PasswordSupplied(payload)
                THEN /\ last'.code = "ok"
                     /\ last'.res.created
                     /\ OneUserCreated(users, users', last'.res.uid[2], email,
                                       payload["password"])
                ELSE /\ last'.code = "internal"
                     /\ users' = users]_vars

\* the password of an existing user has been replaced by the supplied one
W_C20 ==
  /\ last.op = "manage_staff_account"
  /\ last.code = "ok"
  /\ ~last.res.created
  /\ PayloadOf(last.data) = NewPasswordPayload[2]
  /\ users[UserIndex(users, last.res.uid[2])].password = Str(PASSWORD_2)
  /\ Len(users) > 1

\* the pieces of a status string between hyphens, underscores and spaces, in
\* lower case
StatusTokens(s) ==
  Split(Replace(Replace(Lower(s), "_", "-"), " ", "-"), "-") \ {<<>>}

\* C21: is_inactive_contract_status splits the status on hyphen, underscore and
\* space, letter case aside, and is true exactly when one of the pieces is in
\* the deny-list.
C21_StatusTokens ==
  last.op = "is_inactive_contract_status"
  => (last.res.inactive
      <=> (IsStr(last.data) /\ StatusTokens(last.data[2]) \cap INACTIVE_TOKENS # {}))

\* the status resolve_store_access is to evaluate: the status field when it is a
\* non-blank string, else the contractStatus field
EvaluatedStatus(store) ==
  IF IsStr(Get(store, "status")) /\ Strip(store["status"][2]) # <<>>
  THEN store["status"]
  ELSE Get(store, "contractStatus")

\* the last call is a resolve_store_access that has found the member and the store
ReachedStatus(call) ==
  /\ call.op = "resolve_store_access"
  /\ call.ctx.auth
  /\ call.ctx.uid \in DOMAIN roster
  /\ MemberStoreId(call.ctx.uid) \in DOMAIN stores

\* C22: resolve_store_access evaluates the store's status when it is a non-blank
\* string and contractStatus only when status is absent or blank; with neither
\* field, or with a status that is not recognised, access is granted.
C22_StatusThenContractStatus ==
  ReachedStatus(last)
  => LET evaluated == EvaluatedStatus(stores[MemberStoreId(last.ctx.uid)])
     IN last.code = IF IsStr(evaluated) /\ is_inactive_contract_status(evaluated)
                    THEN "permission-denied" ELSE "ok"

\* access has been refused on the contractStatus of a store whose status is blank
W_C22 ==
  /\ ReachedStatus(last)
  /\ last.code = "permission-denied"
  /\ Get(stores[MemberStoreId(last.ctx.uid)], "status") = Str(BLANK)
  /\ Get(stores[MemberStoreId(last.ctx.uid)], "contractStatus") = Str(SUSPENDED)

\* the payload of a call has no contact block with the key key
NoContactKey(call, key) ==
  ~(IsMap(Get(PayloadOf(call.data), "contact"))
    /\ key \in DOMAIN PayloadOf(call.data)["contact"][2])

\* C23: an initialize_store call with no contact.phone key and no token
\* phone_number leaves the phone stored on the caller's TeamMember document as
\* it was; with no contact.firstSignupEmail key and no token email it leaves
\* the stored firstSignupEmail as it was.
C23_UnsuppliedFieldsKept ==
  [][(IsCall(last', "initialize_store") /\ last'.ctx.uid \in DOMAIN roster)
     => LET uid == last'.ctx.uid
        IN /\ (NoContactKey(last', "phone") /\ "phone_number" \notin DOMAIN last'.ctx.token)
              => Get(roster'[uid], "phone") = Get(roster[uid], "phone")
           /\ (NoContactKey(last', "firstSignupEmail") /\ "email" \notin DOMAIN last'.ctx.token)
              => Get(roster'[uid], "firstSignupEmail") = Get(roster[uid], "firstSignupEmail")]_vars

\* process p writes in this step, right after the write of another call for the
\* same uid; the uid was new when either call read
SecondOfTwoOverlapping(p) ==
  /\ p \in DOMAIN inflight
  /\ p \notin DOMAIN inflight'
  /\ inflight[p].fresh
  /\ IsCall(last, "initialize_store")
  /\ last.fresh
  /\ last.ctx.uid = inflight[p].ctx.uid
  /\ inflight[p].ctx.uid \in DOMAIN roster

\* C24: of two initialize_store calls for the same new uid that both read
\* before either writes, each sees the documents as absent and writes
\* createdAt, contractStart and contractEnd; the later write replaces the values
\* of the earlier one; both resolve the same storeId.
C24_LaterWriteWins ==
  [][\A p \in Processes :
       SecondOfTwoOverlapping(p)
       => LET uid == inflight[p].ctx.uid
              mine == inflight[p].locals
              sid == mine.store_id
          IN /\ IsCall(last', "initialize_store")
             /\ last'.res.storeId = last.res.storeId
             /\ \A call \in {last, last'} :
                  /\ "createdAt" \in DOMAIN call.res.teamMember.data
                  /\ {"createdAt", "contractStart", "contractEnd"}
                       \subseteq DOMAIN call.res.store.data
             /\ roster'[uid]["createdAt"] = mine.timestamp
             /\ roster'[uid]["createdAt"] # roster[uid]["createdAt"]
             /\ \A key \in {"createdAt", "contractStart", "contractEnd"} :
                  /\ stores'[sid][key] = mine.store_data[key]
                  /\ stores'[sid][key] # stores[sid][key]]_vars

\* the second of two overlapping calls has written: the caller had a TeamMember
\* document when it wrote, and yet the call has written createdAt
W_C24 ==
  /\ IsCall(last, "initialize_store")
  /\ ~last.fresh
  /\ "createdAt" \in DOMAIN last.res.teamMember.data
  /\ "createdAt" \in DOMAIN last.res.store.data
  /\ roster[last.ctx.uid]["createdAt"] = roster[last.ctx.uid]["updatedAt"]

\* C25: the ownerId of a Store document never changes to another uid, and an
\* initialize_store call by a member whose role is staff leaves that member
\* staff.
C25_OwnerIdStable ==
  [][/\ \A id \in DOMAIN stores :
          "ownerId" \in DOMAIN stores[id]
          => (id \in DOMAIN stores' /\ Get(stores'[id], "ownerId") = stores[id]["ownerId"])
     /\ \A uid \in UidKeys :
          (IsCall(last', "initialize_store") /\ last'.ctx.uid = uid
           /\ Get(roster[uid], "role") = Str(STAFF))
          => Get(roster'[uid], "role") = Str(STAFF)]_vars

\* C26: a successful manage_staff_account by a caller who has a TeamMember
\* document writes that document's storeId, and no other, to the target's
\* TeamMember documents at the uid key and at the email key.
C26_OwnTenantOnly ==
  [][(IsCall(last', "manage_staff_account") /\ last'.ctx.uid \in DOMAIN roster)
     => /\ Get(roster'[last'.res.uid[2]], "storeId") = Get(roster[last'.ctx.uid], "storeId")
        /\ Get(roster'[last'.res.email[2]], "storeId") = Get(roster[last'.ctx.uid], "storeId")]_vars

\* C27: for every uid with a TeamMember document at its uid key and an identity
\* record that has a role claim, the role claim is the role on the document.
C27_ClaimMatchesRoster ==
  \A uid \in UidKeys :
    \A i \in 1..Len(users) :
      (users[i].uid = uid /\ "role" \in DOMAIN users[i].custom_claims)
      => users[i].custom_claims["role"] = Get(roster[uid], "role")

\* manage_staff_account has made an existing member, not the caller, an owner:
\* the role on its document and its role claim have both changed
W_C27 ==
  /\ IsCall(last, "manage_staff_account")
  /\ ~last.res.created
  /\ last.res.uid[2] # last.ctx.uid
  /\ last.res.uid[2] \in UidKeys
  /\ Get(roster[last.res.uid[2]], "role") = Str(OWNER)
  /\ StoredClaims(users, last.res.uid[2]) = [role |-> Str(OWNER)]

\* the identity records after are those before, but for the claims of uid; a
\* record that is new is the record of uid
OnlyClaimsOf(before, after, uid) ==
  /\ Len(after) >= Len(before)
  /\ \A i \in 1..Len(before) :
       IF before[i].uid = uid
       THEN [after[i] EXCEPT !.custom_claims = before[i].custom_claims] = before[i]
       ELSE after[i] = before[i]
  /\ \A i \in (Len(before) + 1)..Len(after) : after[i].uid = uid

\* C28: resolve_store_access, successful or not, leaves every document of the
\* roster store and of the default store as it was; a failing call leaves the
\* identity provider as it was, a successful one changes at most the claims on
\* the caller's own identity record.
C28_ResolveReadOnly ==
  [][last'.op = "resolve_store_access"
     => /\ UNCHANGED <<roster, defMembers, stores, workspaces>>
        /\ IF last'.code = "ok"
           THEN OnlyClaimsOf(users, users', last'.ctx.uid)
           ELSE users' = users]_vars

\* a successful resolve_store_access has replaced claims that carried a storeId,
\* while another user's identity record exists
W_C28 ==
  /\ IsCall(last, "resolve_store_access")
  /\ Len(users) > 1
  /\ StoredClaims(users, last.ctx.uid) = [role |-> Str(OWNER), beta |-> Str(<<"1">>)]

\* no two identity records have the same email, letter case aside
UniqueEmails(us) ==
  \A i, j \in 1..Len(us) :
    (i # j /\ IsStr(us[i].email) /\ IsStr(us[j].email))
    => Lower(us[i].email[2]) # Lower(us[j].email[2])

\* C29: no two identity records have the same email, letter case aside; the
\* first successful manage_staff_account for an email returns created = true,
\* every later one returns the same uid and created = false.
C29_OneUserPerEmail ==
  [][/\ UniqueEmails(users')
     /\ IsCall(last', "manage_staff_account")
        => IF last'.res.email[2] \in DOMAIN provisioned
           THEN last'.res.uid = provisioned[last'.res.email[2]] /\ ~last'.res.created
           ELSE last'.res.created]_vars

\* C30: the storeId of every Workspace document names a Store document whose
\* workspaceSlug is the workspace's key, and the workspace's planId is that
\* store's billing.planId.
C30_WorkspaceMatchesStore ==
  \A slug \in DOMAIN workspaces :
    LET workspace == workspaces[slug]
    IN /\ IsStr(Get(workspace, "storeId"))
       /\ workspace["storeId"][2] \in DOMAIN stores
       /\ Get(stores[workspace["storeId"][2]], "workspaceSlug") = Str(slug)
       /\ IsMap(Get(stores[workspace["storeId"][2]], "billing"))
       /\ Get(workspace, "planId")
            = Get(stores[workspace["storeId"][2]]["billing"][2], "planId")

\* a second initialize_store on a store has changed its plan from starter to pro,
\* on the store and on its workspace
W_C30 ==
  /\ IsCall(last, "initialize_store")
  /\ "createdAt" \notin DOMAIN last.res.workspace.data
  /\ Get(PayloadOf(last.data), "planId") = Str(PLAN_PRO_RAW)
  /\ workspaces[last.res.workspace.id]["planId"] = Str(PRO)
  /\ workspaces[last.res.workspace.id]["storeId"] = Str(last.res.store.id)
  /\ last.twice = FALSE

====
